---- MODULE Spec2Model ----
(***************************************************************************)
(* transVi (cmd/transVi/main.go): split a video's audio into 30 s parts,   *)
(* transcribe every part with a bounded pool of goroutines, merge the      *)
(* per-part subtitle fragments into one time-ordered track.                *)
(*                                                                         *)
(* Durations are counted in milliseconds (every duration the program       *)
(* builds is a whole number of milliseconds).                              *)
(***************************************************************************)
EXTENDS Integers, Sequences, FiniteSets, TLC

\* ---------------------------------------------------------------- bounds
\* most segments the splitter leaves in audio_parts
MaxSegments == 5
\* largest value of the -workers flag that is explored (W >= 1)
MaxWorkers == 2
\* most segments the splitter adds to an audio_parts that already held a file
MaxBeside == 1
\* most calls (mkdir, exec, read, write, remove) the environment makes fail
\* in one run
MaxFaults == 2

\* ------------------------------------------------------------ file names
\* A file name is a sequence of tokens: <<"part", "001", ".wav">> is
\* part001.wav.  The %03d numerals are the tokens of NumToks.
NumToks == <<"000", "001", "002", "003", "004", "005", "006", "007">>

NumTok(k) == NumToks[k + 1]

IsNumTok(t) == \E k \in 1..Len(NumToks) : NumToks[k] = t

\* strconv.Atoi of a numeral token
AtoiTok(t) == (CHOOSE k \in 1..Len(NumToks) : NumToks[k] = t) - 1

\* filepath.Ext: the suffix beginning at the final dot
Ext(name) ==
  IF Len(name) > 0 /\ name[Len(name)] \in {".wav", ".srt"}
    THEN name[Len(name)] ELSE ""

\* the splitter's output pattern audio_parts/part%03d.wav
AudioName(k) == <<"part", NumTok(k), ".wav">>

\* Chunk{Input: path, Output: subtitles/ + Base(path) + ".srt"}
MakeChunk(name) == [Input |-> name, Output |-> name \o <<".srt">>]

\* every token, in byte order ('.' < digits < letters); no token is a prefix
\* of another, so comparing names token by token is comparing them as strings
TokOrder == <<".srt", ".wav">> \o NumToks \o <<"part", "x">>

TokRank(t) == CHOOSE k \in 1..Len(TokOrder) : TokOrder[k] = t

RECURSIVE NameLess(_, _)
NameLess(a, b) ==
  IF b = <<>> THEN FALSE
  ELSE IF a = <<>> THEN TRUE
  ELSE IF Head(a) = Head(b) THEN NameLess(Tail(a), Tail(b))
  ELSE TokRank(Head(a)) < TokRank(Head(b))

\* filepath.WalkDir visits the entries of a directory in lexical order of
\* their names; `names` is a set of names, the result the sequence visited
RECURSIVE WalkOrder(_)
WalkOrder(names) ==
  IF names = {} THEN <<>>
  ELSE LET f == CHOOSE x \in names : \A y \in names \ {x} : NameLess(x, y)
       IN <<f>> \o WalkOrder(names \ {f})

\* filepath.WalkDir("audio_parts") collecting every regular file whose
\* extension is .wav
RECURSIVE Enumerate(_)
Enumerate(order) ==
  IF order = <<>> THEN <<>>
  ELSE (IF Ext(Head(order)) = ".wav" THEN <<MakeChunk(Head(order))>> ELSE <<>>)
         \o Enumerate(Tail(order))

\* ----------------------------------------------------------------- state
VARIABLES
  pc,           \* the driver's position in main
  exitCode,     \* -1 while running, else the process exit code
  input,        \* TRUE iff -input was given a non-empty value
  workers,      \* the -workers flag
  audioDir,     \* TRUE iff directory audio_parts exists
  audioFiles,   \* names of the files in audio_parts
  subDir,       \* TRUE iff directory subtitles exists
  subFiles,     \* the files in subtitles: records [name, data]
  chunks,       \* the slice built by the walk
  next,         \* index of the chunk the launch loop is at (1-based)
  semaphore,    \* number of tokens in the semaphore channel
  wg,           \* the WaitGroup counter
  errChan,      \* the buffered error channel: sequence of chunk indices
  tpc,          \* position of each chunk's goroutine
  began,        \* history: the stages begun, in order
  failed,       \* history: the stage whose failure ended the run, or "none"
  runs,         \* history: how many times each chunk's processChunk ran
  taskErr,      \* history: chunks whose processChunk returned an error
  mpc,          \* position inside mergeSubtitlesAndReencode
  todo,         \* names the first walk of subtitles has still to visit
  allSubtitles, \* the slice merge accumulates and sorts
  merged,       \* merged_sub_titles.srt: [written, body]
  accum,        \* history: allSubtitles as accumulated, before the sort
  ioFault,      \* history: an I/O call of merge was made to fail
  seen,         \* history: how many .srt files the first walk has come upon
  faults,       \* history: how many calls the environment has made fail
  errLines,     \* history: "Error processing chunk" lines printed by main
  rmFail,       \* history: the directories whose os.RemoveAll failed
  srtIn,        \* the fragment handed to parseSrt: [blocks, term, offset]
  parsed,       \* what parseSrt returned: [err, subs]
  rendered,     \* the text serialized from parsed
  ppc           \* position of the parse-and-serialize run

vars == <<pc, exitCode, input, workers, audioDir, audioFiles, subDir,
          subFiles, chunks, next, semaphore, wg, errChan, tpc, began,
          failed, runs, taskErr, mpc, todo, allSubtitles, merged, accum,
          ioFault, seen, faults, errLines, rmFail, srtIn, parsed,
          rendered, ppc>>

poolVars == <<chunks, next, semaphore, wg, errChan, tpc, runs, taskErr>>

mergeVars == <<mpc, todo, allSubtitles, merged, accum, ioFault, seen>>

fsVars == <<audioDir, audioFiles, subDir, subFiles>>

flagVars == <<input, workers>>

logVars == <<errLines, rmFail>>

parseVars == <<srtIn, parsed, rendered, ppc>>

N == Len(chunks)

Running == {i \in DOMAIN tpc : tpc[i] = "running"}

\* ------------------------------------------------------- subtitle parsing
\* A timecode string "HH:MM:SS,mmm" as parseSrtTime sees it:
\*   fields  number of pieces strings.Split(s, ",") gives
\*   h, m, s the clock component's numbers
\*   msOk    whether strconv.Atoi accepts the millisecond piece
\*   ms      its value (Atoi accepts a sign and any number of digits)
Tc(h, m, s, ms) == [fields |-> 2, h |-> h, m |-> m, s |-> s, msOk |-> TRUE, ms |-> ms]

\* time.Parse("15:04:05", hms) accepts hour 0..23, minute and second 0..59
ClockOk(t) == t.h \in 0..23 /\ t.m \in 0..59 /\ t.s \in 0..59

SrtTimeOk(t) == t.fields = 2 /\ ClockOk(t) /\ t.msOk

\* the duration parseSrtTime returns (milliseconds)
ParseSrtTime(t) == t.h * 3600000 + t.m * 60000 + t.s * 1000 + t.ms

\* One "\n\n"-separated part of a fragment as parseSrt sees it:
\*   lines   number of lines of the part
\*   idxOk   whether Atoi accepts the first line, idx its value
\*   codes   number of pieces strings.Split(lines[1], " --> ") gives
\*   start, end   the two timecode strings
\*   text    the joined text lines (an identifier of the text)
Blk(idx, start, end, text) ==
  [lines |-> 3, idxOk |-> TRUE, idx |-> idx, codes |-> 2,
   start |-> start, end |-> end, text |-> text]

BlockOk(b) ==
  /\ b.lines >= 3
  /\ b.idxOk
  /\ b.codes = 2
  /\ SrtTimeOk(b.start)
  /\ SrtTimeOk(b.end)

ToSubtitle(b, offset) ==
  [Index |-> b.idx, Start |-> ParseSrtTime(b.start) + offset,
   End |-> ParseSrtTime(b.end) + offset, Content |-> b.text]

\* parseSrt giving up at the first block it cannot parse
RECURSIVE ParseSrtStops(_, _)
ParseSrtStops(data, offset) ==
  IF data = <<>> \/ ~BlockOk(Head(data)) THEN <<>>
  ELSE <<ToSubtitle(Head(data), offset)>> \o ParseSrtStops(Tail(data), offset)

\* parseSrt: the well-formed blocks, in order, shifted by offset
RECURSIVE ParseSrt(_, _)
ParseSrt(data, offset) ==
  IF data = <<>> THEN <<>>
  ELSE (IF BlockOk(Head(data)) THEN <<ToSubtitle(Head(data), offset)>> ELSE <<>>)
         \o ParseSrt(Tail(data), offset)

\* ----------------------------------------------------------------- merge
SegmentMs == 30000

\* indexStr: the file name without a leading "part" and a trailing ".srt"
TrimPrefixPart(name) == IF name # <<>> /\ Head(name) = "part" THEN Tail(name) ELSE name

TrimSuffixSrt(name) ==
  IF name # <<>> /\ name[Len(name)] = ".srt" THEN SubSeq(name, 1, Len(name) - 1) ELSE name

IndexStr(name) == TrimSuffixSrt(TrimPrefixPart(name))

\* strconv.Atoi(indexStr) succeeds and index >= 1
OrdinalOk(name) ==
  LET str == IndexStr(name)
  IN Len(str) = 1 /\ IsNumTok(str[1]) /\ AtoiTok(str[1]) >= 1

Ordinal(name) == AtoiTok(IndexStr(name)[1])

\* Offset counting the ordinals from zero
OffsetFromZero(index) == index * SegmentMs

Offset(index) == (index - 1) * SegmentMs

\* Clamp leaving a negative duration as it is
ClampNone(d) == d

\* if subs[i].Start < 0 { subs[i].Start = 0 }, and the same for End
Clamp(d) == IF d < 0 THEN 0 ELSE d

ClampSub(sub) == [sub EXCEPT !.Start = Clamp(sub.Start), !.End = Clamp(sub.End)]

\* the entries one accepted fragment file adds to allSubtitles
FileSubs(f) ==
  LET subs == ParseSrt(f.data, Offset(Ordinal(f.name)))
  IN [i \in 1..Len(subs) |-> ClampSub(subs[i])]

\* less(i, j) of the sort.Slice call
Less(a, b) == a.Start < b.Start

Swap(s, i, j) == [s EXCEPT ![i] = s[j], ![j] = s[i]]

\* insertion sort of s[1..n] (package sort, slices of at most 12 elements)
RECURSIVE SiftDown(_, _)
SiftDown(s, j) ==
  IF j > 1 /\ Less(s[j], s[j - 1]) THEN SiftDown(Swap(s, j, j - 1), j - 1) ELSE s

RECURSIVE InsertionFrom(_, _)
InsertionFrom(s, i) ==
  IF i > Len(s) THEN s ELSE InsertionFrom(SiftDown(s, i), i + 1)

InsertionSort(s) == InsertionFrom(s, 2)

\* the ShellSort pass with gap 6 that quickSort (Go up to 1.18) runs before
\* the insertion sort on a slice of at most 12 elements
RECURSIVE ShellPass(_, _)
ShellPass(s, i) ==
  IF i > Len(s) THEN s
  ELSE ShellPass(IF Less(s[i], s[i - 6]) THEN Swap(s, i, i - 6) ELSE s, i + 1)

\* SortSlice leaving the slice as it is
SortSliceNone(s) == {s}

\* sort.Slice is documented as not guaranteed stable; what it returns for a
\* slice of at most 12 elements depends on the toolchain: insertion sort
\* alone (pdqsort, Go 1.19 and later) or gap-6 pass then insertion sort
SortSlice(s) == {InsertionSort(s), InsertionSort(ShellPass(s, 7))}

\* FormatTime printing the whole minutes, not the minutes of the hour
FormatTimeWholeMinutes(d) ==
  [h |-> d \div 3600000, m |-> d \div 60000, s |-> (d \div 1000) % 60,
   ms |-> d % 1000]

\* "%02d:%02d:%02d,%03d" of a non-negative duration
FormatTime(d) ==
  [h |-> d \div 3600000, m |-> (d \div 60000) % 60, s |-> (d \div 1000) % 60,
   ms |-> d % 1000]

\* Serialize writing each entry's own index
SerializeOwnIndex(subs) ==
  [i \in 1..Len(subs) |->
     [Index |-> subs[i].Index, Start |-> FormatTime(subs[i].Start),
      End |-> FormatTime(subs[i].End), Content |-> subs[i].Content]]

\* the text written for allSubtitles: entry i carries index i
Serialize(subs) ==
  [i \in 1..Len(subs) |->
     [Index |-> i, Start |-> FormatTime(subs[i].Start),
      End |-> FormatTime(subs[i].End), Content |-> subs[i].Content]]

\* ---------------------------------------------------------------- driver
\* the environment makes the call at hand fail / lets it succeed
Fault ==
  /\ faults < MaxFaults
  /\ faults' = faults + 1

NoFault == UNCHANGED faults

\* os.Exit(1) after the diagnostic of the stage that failed
Die(stage) ==
  /\ pc' = "exited"
  /\ exitCode' = 1
  /\ failed' = stage

\* what the transcriber writes for a segment (its text is its own business)
\* what audio_parts may hold when the run starts (os.MkdirAll leaves an
\* existing directory as it is): a .wav file that is no segment of the splitter
LeftOver == {<<"x", ".wav">>}

WhisperData == {<<Blk(1, Tc(0, 0, 5, 0), Tc(0, 0, 8, 0), 1)>>}

\* no fragment is being parsed
NoParse ==
  /\ srtIn = [blocks |-> <<>>, term |-> <<>>, offset |-> 0]
  /\ parsed = [err |-> FALSE, subs |-> <<>>]
  /\ rendered = <<>>
  /\ ppc = "idle"

Init ==
  /\ pc = "checkInput"
  /\ exitCode = -1
  /\ input \in BOOLEAN
  /\ workers \in 1..MaxWorkers
  /\ audioFiles \in SUBSET LeftOver
  /\ audioDir = (audioFiles # {})
  /\ subDir \in BOOLEAN
  /\ subFiles = {}
  /\ chunks = <<>>
  /\ next = 1
  /\ semaphore = 0
  /\ wg = 0
  /\ errChan = <<>>
  /\ tpc = <<>>
  /\ began = <<"flag">>
  /\ failed = "none"
  /\ runs = <<>>
  /\ taskErr = {}
  /\ mpc = "idle"
  /\ todo = <<>>
  /\ allSubtitles = <<>>
  /\ merged = [written |-> FALSE, body |-> <<>>]
  /\ accum = <<>>
  /\ ioFault = FALSE
  /\ seen = 0
  /\ faults = 0
  /\ errLines = 0
  /\ rmFail = {}
  /\ NoParse

\* if *input == "" { ...; os.Exit(1) }
CheckInput ==
  /\ pc = "checkInput"
  /\ IF input
       THEN /\ pc' = "mkdirAudio"
            /\ began' = Append(began, "mkdir")
            /\ UNCHANGED <<exitCode, failed>>
       ELSE /\ Die("flag")
            /\ UNCHANGED began
  /\ UNCHANGED <<flagVars, parseVars, logVars, fsVars, poolVars, mergeVars, faults>>

\* os.MkdirAll("audio_parts", 0755)
MkdirAudio ==
  /\ pc = "mkdirAudio"
  /\ \/ /\ audioDir' = TRUE
        /\ pc' = "split"
        /\ began' = Append(began, "split")
        /\ NoFault
        /\ UNCHANGED <<exitCode, failed>>
     \/ /\ ~audioDir
        /\ Fault
        /\ Die("mkdir")
        /\ UNCHANGED <<audioDir, began>>
  /\ UNCHANGED <<flagVars, parseVars, logVars, audioFiles, subDir, subFiles, poolVars, mergeVars>>

\* runCommand(ffmpegCmd): the splitter adds part000.wav .. to audio_parts
Split ==
  /\ pc = "split"
  /\ \/ /\ \E n \in 0..(IF audioFiles = {} THEN MaxSegments ELSE MaxBeside) :
             audioFiles' = audioFiles \cup {AudioName(k) : k \in 0..(n - 1)}
        /\ pc' = "walkAudio"
        /\ began' = Append(began, "enumerate")
        /\ NoFault
        /\ UNCHANGED <<exitCode, failed>>
     \/ /\ Fault
        /\ Die("split")
        /\ UNCHANGED <<audioFiles, began>>
  /\ UNCHANGED <<flagVars, parseVars, logVars, audioDir, subDir, subFiles, poolVars, mergeVars>>

\* filepath.WalkDir("audio_parts", ...) building chunks; then the WaitGroup,
\* the semaphore and the error channel are made
WalkAudio ==
  /\ pc = "walkAudio"
  /\ \/ /\ chunks' = Enumerate(WalkOrder(audioFiles))
        /\ tpc' = [i \in 1..Len(chunks') |-> "notStarted"]
        /\ runs' = [i \in 1..Len(chunks') |-> 0]
        /\ pc' = "loop"
        /\ began' = Append(began, "pool")
        /\ NoFault
        /\ UNCHANGED <<exitCode, failed>>
     \/ /\ Fault
        /\ Die("enumerate")
        /\ UNCHANGED <<chunks, tpc, runs, began>>
  /\ UNCHANGED <<flagVars, parseVars, logVars, fsVars, next,
                 semaphore, wg, errChan, taskErr, mergeVars>>

\* for _, chunk := range chunks { wg.Add(1) ...
LoopAdd ==
  /\ pc = "loop"
  /\ IF next <= N
       THEN /\ wg' = wg + 1
            /\ pc' = "acquire"
       ELSE /\ pc' = "wait"
            /\ UNCHANGED wg
  /\ UNCHANGED <<exitCode, flagVars, parseVars, logVars, fsVars, chunks, next, semaphore, errChan,
                 tpc, runs, taskErr, began, failed, mergeVars, faults>>

\* Acquire with a send that never blocks
AcquireNoLimit ==
  /\ pc = "acquire"
  /\ semaphore' = semaphore + 1
  /\ pc' = "go"
  /\ UNCHANGED <<exitCode, flagVars, parseVars, logVars, fsVars, chunks, next, wg, errChan, tpc,
                 runs, taskErr, began, failed, mergeVars, faults>>

\* semaphore <- struct{}{}: blocks while the channel holds `workers` tokens
Acquire ==
  /\ pc = "acquire"
  /\ semaphore < workers
  /\ semaphore' = semaphore + 1
  /\ pc' = "go"
  /\ UNCHANGED <<exitCode, flagVars, parseVars, logVars, fsVars, chunks, next, wg, errChan, tpc,
                 runs, taskErr, began, failed, mergeVars, faults>>

\* go func(c Chunk) { ... }(chunk)
Go ==
  /\ pc = "go"
  /\ tpc' = [tpc EXCEPT ![next] = "start"]
  /\ next' = next + 1
  /\ pc' = "loop"
  /\ UNCHANGED <<exitCode, flagVars, parseVars, logVars, fsVars, chunks, semaphore, wg, errChan,
                 runs, taskErr, began, failed, mergeVars, faults>>

\* Wait without the barrier
WaitNoBarrier ==
  /\ pc = "wait"
  /\ pc' = "drain"
  /\ UNCHANGED <<exitCode, flagVars, parseVars, logVars, fsVars, poolVars, began, failed, mergeVars,
                 faults>>

\* wg.Wait(); close(errChan)
Wait ==
  /\ pc = "wait"
  /\ wg = 0
  /\ pc' = "drain"
  /\ UNCHANGED <<exitCode, flagVars, parseVars, logVars, fsVars, poolVars, began, failed, mergeVars,
                 faults>>

\* Drain that goes on to merge whatever the channel holds
DrainGoesOn ==
  /\ pc = "drain"
  /\ pc' = "merge"
  /\ mpc' = "walk"
  /\ began' = Append(began, "merge")
  /\ UNCHANGED <<exitCode, failed, errChan>>
  /\ UNCHANGED <<flagVars, parseVars, logVars, fsVars, chunks, next, semaphore, wg, tpc, runs,
                 taskErr, todo, allSubtitles, merged, accum, ioFault, seen,
                 faults>>

\* for err := range errChan { ...; os.Exit(1) }, then the call of merge
Drain ==
  /\ pc = "drain"
  /\ IF errChan # <<>>
       THEN /\ Die("pool")
            /\ errChan' = Tail(errChan)
            /\ errLines' = errLines + 1
            /\ UNCHANGED <<began, mpc>>
       ELSE /\ pc' = "merge"
            /\ mpc' = "walk"
            /\ began' = Append(began, "merge")
            /\ UNCHANGED <<exitCode, failed, errChan, errLines>>
  /\ UNCHANGED <<flagVars, parseVars, rmFail, fsVars, chunks, next, semaphore, wg, tpc, runs,
                 taskErr, todo, allSubtitles, merged, accum, ioFault, seen,
                 faults>>

\* ------------------------------------------------------ the pool's tasks
\* processChunk: os.MkdirAll("subtitles", 0755)
TaskMkdir(i) ==
  /\ tpc[i] = "start"
  /\ runs' = [runs EXCEPT ![i] = runs[i] + 1]
  /\ \/ /\ subDir' = TRUE
        /\ tpc' = [tpc EXCEPT ![i] = "exec"]
        /\ NoFault
        /\ UNCHANGED taskErr
     \/ /\ ~subDir
        /\ Fault
        /\ taskErr' = taskErr \cup {i}
        /\ tpc' = [tpc EXCEPT ![i] = "sendErr"]
        /\ UNCHANGED subDir
  /\ UNCHANGED <<pc, exitCode, flagVars, parseVars, logVars, audioDir, audioFiles, subFiles, chunks,
                 next, semaphore, wg, errChan, began, failed, mergeVars>>

\* runCommand(whisperCmd): the transcriber process is started
TaskExec(i) ==
  /\ tpc[i] = "exec"
  /\ tpc' = [tpc EXCEPT ![i] = "running"]
  /\ UNCHANGED <<pc, exitCode, flagVars, parseVars, logVars, fsVars, chunks, next, semaphore, wg,
                 errChan, runs, taskErr, began, failed, mergeVars, faults>>

\* cmd.Run returns: exit status 0 with the fragment written at c.Output, or
\* an error (the process could not be started, or exited non-zero)
TaskExit(i) ==
  /\ tpc[i] = "running"
  /\ \/ /\ \E d \in WhisperData :
             subFiles' = {f \in subFiles : f.name # chunks[i].Output}
                           \cup {[name |-> chunks[i].Output, data |-> d]}
        /\ tpc' = [tpc EXCEPT ![i] = "remove"]
        /\ NoFault
        /\ UNCHANGED taskErr
     \/ /\ Fault
        /\ taskErr' = taskErr \cup {i}
        /\ tpc' = [tpc EXCEPT ![i] = "sendErr"]
        /\ UNCHANGED subFiles
  /\ UNCHANGED <<pc, exitCode, flagVars, parseVars, logVars, audioDir, audioFiles, subDir, chunks,
                 next, semaphore, wg, errChan, runs, began, failed, mergeVars>>

\* TaskRemove with a failed removal returned as the task's error
TaskRemoveEscalates(i) ==
  /\ tpc[i] = "remove"
  /\ \/ /\ audioFiles' = audioFiles \ {chunks[i].Input}
        /\ tpc' = [tpc EXCEPT ![i] = "release"]
        /\ NoFault
        /\ UNCHANGED taskErr
     \/ /\ Fault
        /\ taskErr' = taskErr \cup {i}
        /\ tpc' = [tpc EXCEPT ![i] = "sendErr"]
        /\ UNCHANGED audioFiles
  /\ UNCHANGED <<pc, exitCode, flagVars, parseVars, logVars, audioDir, subDir,
                 subFiles, chunks, next, semaphore, wg, errChan, runs, began,
                 failed, mergeVars>>

\* os.Remove(c.Input): a failure is printed and processChunk returns nil
TaskRemove(i) ==
  /\ tpc[i] = "remove"
  /\ \/ /\ audioFiles' = audioFiles \ {chunks[i].Input}
        /\ NoFault
     \/ /\ Fault
        /\ UNCHANGED audioFiles
  /\ tpc' = [tpc EXCEPT ![i] = "release"]
  /\ UNCHANGED <<pc, exitCode, flagVars, parseVars, logVars, audioDir, subDir, subFiles, chunks,
                 next, semaphore, wg, errChan, runs, taskErr, began, failed,
                 mergeVars>>

\* TaskSendErr on a channel of capacity 1 with a send that gives up when full
TaskSendErrLossy(i) ==
  /\ tpc[i] = "sendErr"
  /\ errChan' = IF errChan = <<>> THEN <<i>> ELSE errChan
  /\ tpc' = [tpc EXCEPT ![i] = "release"]
  /\ UNCHANGED <<pc, exitCode, flagVars, parseVars, logVars, fsVars, chunks, next, semaphore, wg,
                 runs, taskErr, began, failed, mergeVars, faults>>

\* TaskSendErr on a channel without buffer: the send waits for main to
\* receive, which main does only after wg.Wait()
TaskSendErrUnbuffered(i) ==
  /\ tpc[i] = "sendErr"
  /\ pc = "drain"
  /\ errChan' = Append(errChan, i)
  /\ tpc' = [tpc EXCEPT ![i] = "release"]
  /\ UNCHANGED <<pc, exitCode, flagVars, parseVars, logVars, fsVars, chunks,
                 next, semaphore, wg, runs, taskErr, began, failed, mergeVars,
                 faults>>

\* errChan <- err: the channel's capacity is len(chunks)
TaskSendErr(i) ==
  /\ tpc[i] = "sendErr"
  /\ Len(errChan) < N
  /\ errChan' = Append(errChan, i)
  /\ tpc' = [tpc EXCEPT ![i] = "release"]
  /\ UNCHANGED <<pc, exitCode, flagVars, parseVars, logVars, fsVars, chunks, next, semaphore, wg,
                 runs, taskErr, began, failed, mergeVars, faults>>

\* TaskDeferred without the receive from the semaphore
TaskDeferredKeepsToken(i) ==
  /\ tpc[i] = "release"
  /\ wg' = wg - 1
  /\ tpc' = [tpc EXCEPT ![i] = "done"]
  /\ UNCHANGED <<pc, exitCode, flagVars, parseVars, logVars, fsVars, chunks,
                 next, semaphore, errChan, runs, taskErr, began, failed,
                 mergeVars, faults>>

\* the deferred calls, run back to back when the goroutine's function
\* returns: <-semaphore (the task's own token is in the channel, so the
\* receive cannot block), then wg.Done()
TaskDeferred(i) ==
  /\ tpc[i] = "release"
  /\ semaphore > 0
  /\ semaphore' = semaphore - 1
  /\ wg' = wg - 1
  /\ tpc' = [tpc EXCEPT ![i] = "done"]
  /\ UNCHANGED <<pc, exitCode, flagVars, parseVars, logVars, fsVars, chunks, next, errChan,
                 runs, taskErr, began, failed, mergeVars, faults>>

\* ------------------------------------------------- merge, step by step
SrtNames == {f.name : f \in {g \in subFiles : Ext(g.name) = ".srt"}}

FileNamed(n) == CHOOSE f \in subFiles : f.name = n

\* MergeFails with main only printing the error and going on to the clean-up
MergeFailsGoesOn ==
  /\ pc' = "rmAudio"
  /\ failed' = "merge"
  /\ mpc' = "failed"
  /\ began' = Append(began, "cleanup")
  /\ UNCHANGED exitCode

\* return err from mergeSubtitlesAndReencode; main prints and exits 1
MergeFails ==
  /\ Die("merge")
  /\ mpc' = "failed"
  /\ UNCHANGED began

MergeGoesOn ==
  UNCHANGED <<pc, exitCode, failed, began>>

\* filepath.WalkDir("subtitles", ...): the root is lstat'ed and read; an
\* error there is handed to the callback, which returns it
MergeWalkRoot ==
  /\ pc = "merge"
  /\ mpc = "walk"
  /\ IF ~subDir
       THEN /\ MergeFails
            /\ UNCHANGED <<todo, ioFault, faults>>
       ELSE \/ /\ todo' = WalkOrder({f.name : f \in subFiles})
               /\ mpc' = "visit"
               /\ MergeGoesOn
               /\ NoFault
               /\ UNCHANGED ioFault
            \/ /\ Fault
               /\ ioFault' = TRUE
               /\ MergeFails
               /\ UNCHANGED todo
  /\ UNCHANGED <<flagVars, parseVars, logVars, fsVars, poolVars, allSubtitles, merged, accum, seen>>

\* the callback on one regular file of subtitles
MergeVisit ==
  /\ pc = "merge"
  /\ mpc = "visit"
  /\ todo # <<>>
  /\ seen' = IF Ext(Head(todo)) = ".srt" THEN seen + 1 ELSE seen
  /\ LET name == Head(todo)
     IN IF Ext(name) = ".srt" /\ OrdinalOk(name)
          THEN \/ /\ allSubtitles' = allSubtitles \o FileSubs(FileNamed(name))
                  /\ todo' = Tail(todo)
                  /\ MergeGoesOn
                  /\ UNCHANGED <<mpc, ioFault, faults>>
               \/ /\ Fault
                  /\ ioFault' = TRUE
                  /\ MergeFails
                  /\ UNCHANGED <<todo, allSubtitles>>
          ELSE /\ todo' = Tail(todo)
               /\ MergeGoesOn
               /\ UNCHANGED <<mpc, allSubtitles, ioFault, faults>>
  /\ UNCHANGED <<flagVars, parseVars, logVars, fsVars, poolVars, merged, accum>>

\* sort.Slice(allSubtitles, less by Start)
MergeSort ==
  /\ pc = "merge"
  /\ mpc = "visit"
  /\ todo = <<>>
  /\ accum' = allSubtitles
  /\ allSubtitles' \in SortSlice(allSubtitles)
  /\ mpc' = "write"
  /\ MergeGoesOn
  /\ UNCHANGED <<flagVars, parseVars, logVars, fsVars, poolVars, todo, merged, ioFault, seen, faults>>

\* os.WriteFile("merged_sub_titles.srt", ...)
MergeWrite ==
  /\ pc = "merge"
  /\ mpc = "write"
  /\ \/ /\ merged' = [written |-> TRUE, body |-> Serialize(allSubtitles)]
        /\ mpc' = "delete"
        /\ MergeGoesOn
        /\ UNCHANGED <<ioFault, faults>>
     \/ /\ Fault
        /\ ioFault' = TRUE
        /\ MergeFails
        /\ UNCHANGED merged
  /\ UNCHANGED <<flagVars, parseVars, logVars, fsVars, poolVars, todo, allSubtitles, accum, seen>>

\* the second walk: os.Remove of every .srt file; a failed removal is only
\* printed; then merge returns nil and main goes on to the clean-up
MergeDelete ==
  /\ pc = "merge"
  /\ mpc = "delete"
  /\ \/ /\ \E kept \in SUBSET SrtNames :
             /\ faults + Cardinality(kept) <= MaxFaults
             /\ faults' = faults + Cardinality(kept)
             /\ subFiles' = {f \in subFiles : Ext(f.name) # ".srt" \/ f.name \in kept}
        /\ mpc' = "returned"
        /\ pc' = "rmAudio"
        /\ began' = Append(began, "cleanup")
        /\ UNCHANGED <<exitCode, failed, ioFault>>
     \/ /\ Fault
        /\ ioFault' = TRUE
        /\ MergeFails
        /\ UNCHANGED subFiles
  /\ UNCHANGED <<flagVars, parseVars, logVars, audioDir, audioFiles, subDir, poolVars, todo,
                 allSubtitles, merged, accum, seen>>

\* --------------------------------------------------------------- clean-up
\* os.RemoveAll("audio_parts"): an error is only printed
RmAudio ==
  /\ pc = "rmAudio"
  /\ \/ /\ audioDir' = FALSE
        /\ audioFiles' = {}
        /\ NoFault
        /\ UNCHANGED rmFail
     \/ /\ Fault
        /\ rmFail' = rmFail \cup {"audio_parts"}
        /\ UNCHANGED <<audioDir, audioFiles>>
  /\ pc' = "rmSub"
  /\ UNCHANGED <<exitCode, flagVars, parseVars, errLines, subDir,
                 subFiles, poolVars, began, failed, mergeVars>>

\* RmSub with main returning without the call of os.RemoveAll("subtitles")
RmSubLeft ==
  /\ pc = "rmSub"
  /\ pc' = "exited"
  /\ exitCode' = 0
  /\ UNCHANGED <<flagVars, parseVars, logVars, fsVars, poolVars, began,
                 failed, mergeVars, faults>>

\* os.RemoveAll("subtitles"): an error is only printed; main returns
RmSub ==
  /\ pc = "rmSub"
  /\ \/ /\ subDir' = FALSE
        /\ subFiles' = {}
        /\ NoFault
        /\ UNCHANGED rmFail
     \/ /\ Fault
        /\ rmFail' = rmFail \cup {"subtitles"}
        /\ UNCHANGED <<subDir, subFiles>>
  /\ pc' = "exited"
  /\ exitCode' = 0
  /\ UNCHANGED <<flagVars, parseVars, errLines, audioDir, audioFiles,
                 poolVars, began, failed, mergeVars>>

\* --------------------------------------------------------- specifications
Task ==
  \E i \in DOMAIN tpc :
    \/ TaskMkdir(i)
    \/ TaskExec(i)
    \/ TaskExit(i)
    \/ TaskRemove(i)
    \/ TaskSendErr(i)
    \/ TaskDeferred(i)

Next ==
  \/ CheckInput
  \/ MkdirAudio
  \/ Split
  \/ WalkAudio
  \/ LoopAdd
  \/ Acquire
  \/ Go
  \/ Wait
  \/ Drain
  \/ Task
  \/ MergeWalkRoot
  \/ MergeVisit
  \/ MergeSort
  \/ MergeWrite
  \/ MergeDelete
  \/ RmAudio
  \/ RmSub

Spec == Init /\ [][Next]_vars

\* the steps of main's own goroutine
Driver ==
  \/ CheckInput
  \/ MkdirAudio
  \/ Split
  \/ WalkAudio
  \/ LoopAdd
  \/ Acquire
  \/ Go
  \/ Wait
  \/ Drain
  \/ MergeWalkRoot
  \/ MergeVisit
  \/ MergeSort
  \/ MergeWrite
  \/ MergeDelete
  \/ RmAudio
  \/ RmSub

\* the steps of the goroutine of chunk i
TaskOf(i) ==
  /\ i \in DOMAIN tpc
  /\ \/ TaskMkdir(i)
     \/ TaskExec(i)
     \/ TaskExit(i)
     \/ TaskRemove(i)
     \/ TaskSendErr(i)
     \/ TaskDeferred(i)

\* The Go scheduler runs every goroutine that can take a step, each call
\* into the system returns, and every transcriber process started comes to
\* an end (TaskExit): weak fairness of main and of each task's goroutine
FairSpec ==
  /\ Init
  /\ [][Next]_vars
  /\ WF_vars(Driver)
  /\ \A i \in 1..MaxSegments : WF_vars(TaskOf(i))

\* ------------------------------------------ merge over a given directory
\* most blocks in all the fragment files of the directory together
MaxEntries == 3
\* most entries of the one long fragment the sort is tried on
MaxSortLen == 7

\* names a file of subtitles may have
FragNames ==
  { <<"part", "001", ".srt">>, <<"part", "002", ".srt">>,
    <<"part", "000", ".srt">>, <<"part", "001", ".wav", ".srt">>,
    <<"part", "001", ".wav">> }

\* blocks a fragment may hold: an ordinary one; one that ends before it
\* starts, 40 s into its segment; one whose millisecond component is -2000
\* (Atoi takes the sign); one without the " --> " arrow
FragBlocks ==
  { Blk(1, Tc(0, 0, 5, 0), Tc(0, 0, 8, 0), 1),
    Blk(2, Tc(0, 0, 40, 0), Tc(0, 0, 35, 0), 2),
    Blk(3, Tc(0, 0, 0, -2000), Tc(0, 0, 0, -500), 3),
    [Blk(4, Tc(0, 0, 5, 0), Tc(0, 0, 8, 0), 4) EXCEPT !.codes = 1] }

\* the blocks of file `name` when the directory's blocks are laid out as
\* `lay`, a sequence of <<name, block>>
RECURSIVE DataOf(_, _)
DataOf(name, lay) ==
  IF lay = <<>> THEN <<>>
  ELSE (IF Head(lay)[1] = name THEN <<Head(lay)[2]>> ELSE <<>>)
         \o DataOf(name, Tail(lay))

Layouts == UNION {[1..k -> FragNames \X FragBlocks] : k \in 0..MaxEntries}

\* a fragment of n entries numbered 1..n, each starting at 0 s or at 1 s
LongData(starts) ==
  [i \in 1..Len(starts) |->
     Blk(i, Tc(0, 0, starts[i], 0), Tc(0, 0, starts[i] + 1, 0), 10 + i)]

LongStarts == UNION {[1..k -> {0, 1}] : k \in (MaxSortLen - 1)..MaxSortLen}

\* main has reached the call of mergeSubtitlesAndReencode
AtMerge ==
  /\ pc = "merge"
  /\ exitCode = -1
  /\ input = TRUE
  /\ workers = 1
  /\ audioDir = TRUE
  /\ audioFiles = {}
  /\ chunks = <<>>
  /\ next = 1
  /\ semaphore = 0
  /\ wg = 0
  /\ errChan = <<>>
  /\ tpc = <<>>
  /\ began = <<"flag", "mkdir", "split", "enumerate", "pool", "merge">>
  /\ failed = "none"
  /\ runs = <<>>
  /\ taskErr = {}
  /\ mpc = "walk"
  /\ todo = <<>>
  /\ allSubtitles = <<>>
  /\ merged = [written |-> FALSE, body |-> <<>>]
  /\ accum = <<>>
  /\ ioFault = FALSE
  /\ seen = 0
  /\ faults = 0
  /\ errLines = 0
  /\ rmFail = {}
  /\ NoParse

InitMerge ==
  /\ AtMerge
  /\ \/ /\ subDir = FALSE
        /\ subFiles = {}
     \/ /\ subDir = TRUE
        /\ \E lay \in Layouts :
             subFiles = {[name |-> n, data |-> DataOf(n, lay)] :
                           n \in {lay[i][1] : i \in 1..Len(lay)}}
     \/ /\ subDir = TRUE
        /\ \E starts \in LongStarts :
             subFiles = {[name |-> <<"part", "001", ".srt">>, data |-> LongData(starts)]}

NextMerge ==
  \/ MergeWalkRoot
  \/ MergeVisit
  \/ MergeSort
  \/ MergeWrite
  \/ MergeDelete

SpecMerge == InitMerge /\ [][NextMerge]_vars

\* ------------------------------------------------ a fragment as its text
\* A fragment's text is the sequence of its lines (the pieces between "\n").
\* A line is one of
\*   num    a line strconv.Atoi accepts, idx its value
\*   tc     a line holding codes pieces around " --> ": start and end
\*   txt    any other non-empty line, txt its identifier
\*   empty  the empty line
NoTc == Tc(0, 0, 0, 0)

NumLine(n) ==
  [kind |-> "num", idx |-> n, codes |-> 1, start |-> NoTc, end |-> NoTc, txt |-> 0]

TcLine(a, b) ==
  [kind |-> "tc", idx |-> 0, codes |-> 2, start |-> a, end |-> b, txt |-> 0]

TxtLine(t) ==
  [kind |-> "txt", idx |-> 0, codes |-> 1, start |-> NoTc, end |-> NoTc, txt |-> t]

EmptyLine ==
  [kind |-> "empty", idx |-> 0, codes |-> 1, start |-> NoTc, end |-> NoTc, txt |-> 0]

\* strings.Split(data, "\n\n") on the lines: "\n\n" stands where the line
\* after a line break is empty and is itself followed by a line break; the
\* matches are taken left to right without overlap
FirstCut(text) ==
  CHOOSE j \in 1..(Len(text) - 2) :
    /\ text[j + 1].kind = "empty"
    /\ \A k \in 1..(j - 1) : text[k + 1].kind # "empty"

RECURSIVE SplitParts(_)
SplitParts(text) ==
  IF \E j \in 1..(Len(text) - 2) : text[j + 1].kind = "empty"
    THEN <<SubSeq(text, 1, FirstCut(text))>>
           \o SplitParts(SubSeq(text, FirstCut(text) + 2, Len(text)))
    ELSE <<text>>

\* strings.Split(part, "\n") and what parseSrt reads of the lines; a part of
\* empty lines only (strings.TrimSpace(part) == "") has no number as its
\* first line and is skipped like every part BlockOk rejects
PartToBlk(part) ==
  [lines |-> Len(part),
   idxOk |-> Len(part) >= 1 /\ part[1].kind = "num",
   idx   |-> IF Len(part) >= 1 THEN part[1].idx ELSE 0,
   codes |-> IF Len(part) >= 2 THEN part[2].codes ELSE 1,
   start |-> IF Len(part) >= 2 THEN part[2].start ELSE NoTc,
   end   |-> IF Len(part) >= 2 THEN part[2].end ELSE NoTc,
   text  |-> SubSeq(part, 3, Len(part))]

Parts(text) == [i \in 1..Len(SplitParts(text)) |-> PartToBlk(SplitParts(text)[i])]

\* the text of blocks written one after the other with an empty line between
RECURSIVE JoinBlocks(_)
JoinBlocks(blocks) ==
  IF blocks = <<>> THEN <<>>
  ELSE IF Len(blocks) = 1 THEN blocks[1]
  ELSE blocks[1] \o <<EmptyLine>> \o JoinBlocks(Tail(blocks))

TextOf(in) == JoinBlocks(in.blocks) \o in.term

\* the blocks the fragments of SpecParse are made of: two well-formed ones
\* (the second with two lines of text) and one of each malformed kind
GoodTc == TcLine(Tc(0, 0, 5, 0), Tc(0, 0, 8, 0))

ParseBlocks ==
  { <<NumLine(1), GoodTc, TxtLine(1)>>,
    <<NumLine(2), TcLine(Tc(0, 0, 1, 500), Tc(0, 0, 2, 0)), TxtLine(2), TxtLine(3)>>,
    <<NumLine(3), GoodTc>>,
    <<TxtLine(4), GoodTc, TxtLine(1)>>,
    <<NumLine(5), TxtLine(5), TxtLine(1)>>,
    <<NumLine(6), TcLine([Tc(0, 0, 5, 0) EXCEPT !.msOk = FALSE], Tc(0, 0, 8, 0)),
      TxtLine(1)>>,
    <<NumLine(7), TcLine(Tc(0, 0, 5, 0), [Tc(0, 0, 8, 0) EXCEPT !.fields = 1]),
      TxtLine(1)>> }

MaxBlocks == 3

BlockSeqs == UNION {[1..n -> ParseBlocks] : n \in 1..MaxBlocks}

\* a text ends with its last line or with "\n\n" after it
Terms == {<<>>, <<EmptyLine, EmptyLine>>}

\* timecodes "HH:MM:SS,mmm" of one block
ClockSamples ==
  {Tc(h, m, s, ms) : h \in {0, 23, 24, 99}, m \in {0, 59}, s \in {0, 59},
                     ms \in {0, 7, 999}}

\* the pipeline is not running
NoRun ==
  /\ pc = "exited"
  /\ exitCode = -1
  /\ input = TRUE
  /\ workers = 1
  /\ audioDir = FALSE
  /\ audioFiles = {}
  /\ subDir = FALSE
  /\ subFiles = {}
  /\ chunks = <<>>
  /\ next = 1
  /\ semaphore = 0
  /\ wg = 0
  /\ errChan = <<>>
  /\ tpc = <<>>
  /\ began = <<>>
  /\ failed = "none"
  /\ runs = <<>>
  /\ taskErr = {}
  /\ mpc = "idle"
  /\ todo = <<>>
  /\ allSubtitles = <<>>
  /\ merged = [written |-> FALSE, body |-> <<>>]
  /\ accum = <<>>
  /\ ioFault = FALSE
  /\ seen = 0
  /\ faults = 0
  /\ errLines = 0
  /\ rmFail = {}

InitParse ==
  /\ NoRun
  /\ \/ \E b \in BlockSeqs, t \in Terms, o \in {0, SegmentMs} :
          srtIn = [blocks |-> b, term |-> t, offset |-> o]
     \/ \E a \in ClockSamples, b \in ClockSamples :
          srtIn = [blocks |-> <<(<<NumLine(1), TcLine(a, b), TxtLine(1)>>)>>,
                   term |-> <<>>, offset |-> 0]
  /\ parsed = [err |-> FALSE, subs |-> <<>>]
  /\ rendered = <<>>
  /\ ppc = "parse"

\* subs, err := parseSrt(string(data), offset): err is always nil
ParseFragment ==
  /\ ppc = "parse"
  /\ parsed' = [err |-> FALSE, subs |-> ParseSrt(Parts(TextOf(srtIn)), srtIn.offset)]
  /\ ppc' = "serialize"
  /\ UNCHANGED <<pc, exitCode, flagVars, srtIn, rendered, logVars, fsVars,
                 poolVars, began, failed, mergeVars, faults>>

\* the entries clamped, sorted and written as merge does
SerializeParsed ==
  /\ ppc = "serialize"
  /\ \E sorted \in SortSlice([i \in 1..Len(parsed.subs) |-> ClampSub(parsed.subs[i])]) :
       rendered' = Serialize(sorted)
  /\ ppc' = "done"
  /\ UNCHANGED <<pc, exitCode, flagVars, srtIn, parsed, logVars, fsVars,
                 poolVars, began, failed, mergeVars, faults>>

NextParse ==
  \/ ParseFragment
  \/ SerializeParsed

SpecParse == InitParse /\ [][NextParse]_vars

\* ================================================================ claims
InBegan(stage) == \E k \in 1..Len(began) : began[k] = stage

\* wg.Wait() has returned
PastBarrier == InBegan("pool") /\ pc \notin {"loop", "acquire", "go", "wait"}

AllTasksDone == \A i \in 1..N : tpc[i] = "done"

\* C1: in every reachable state of the pool, under every interleaving of
\* the driver and the tasks, the number of tasks whose transcriber process
\* is running is at most the concurrency limit W.
C1_AtMostWRunning == Cardinality(Running) <= workers

\* C1 witness: W = 2 processes run at once while a third segment waits
C1_Witness == workers = 2 /\ Cardinality(Running) = 2 /\ N >= 3 /\ next <= N

\* C2: once the barrier wg.Wait has returned, the task of each of the N
\* enumerated segments has run exactly once and has completed, whether or
\* not earlier tasks failed; no task runs twice; the driver reads the sink,
\* starts merge or exits only with every task completed.
C2_AllTasksOnceBeforeBarrier ==
  /\ \A i \in 1..N : runs[i] <= 1
  /\ PastBarrier => \A i \in 1..N : tpc[i] = "done" /\ runs[i] = 1

\* C2 witness: the barrier is passed, the first task failed and the tasks
\* launched after it ran all the same
C2_Witness == PastBarrier /\ N >= 3 /\ 1 \in taskErr /\ AllTasksDone

\* C3: after the barrier the failure sink holds exactly one failure per
\* failed task (none lost, none duplicated, none from a task that
\* succeeded), and at no time holds a failure of a task that did not fail.
C3_SinkHoldsEveryFailure ==
  /\ \A k \in 1..Len(errChan) : errChan[k] \in taskErr
  /\ \A k, l \in 1..Len(errChan) : k # l => errChan[k] # errChan[l]
  /\ pc = "drain" =>
       /\ Len(errChan) = Cardinality(taskErr)
       /\ {errChan[k] : k \in 1..Len(errChan)} = taskErr
       /\ AllTasksDone

\* C3 witness: W = 2, 5 segments, only task 3 failed: all 5 tasks are
\* complete and the sink holds exactly one failure
C3_Witness ==
  /\ pc = "drain"
  /\ workers = 2
  /\ N = 5
  /\ taskErr = {3}
  /\ Len(errChan) = 1
  /\ AllTasksDone

\* C4: if at least one task failed, merge is never started (no merged
\* output, no fragment deleted, working directories not removed), the
\* failure is in the sink when the driver reads it, and the run's exit,
\* taken after all tasks finished, is with code 1.
C4_FailureStopsBeforeMerge ==
  taskErr # {} =>
    /\ mpc = "idle"
    /\ ~merged.written
    /\ ~InBegan("merge")
    /\ ~InBegan("cleanup")
    /\ audioDir
    /\ subFiles # {} => subDir
    /\ \A i \in 1..N :
         (tpc[i] \in {"remove", "release", "done"} /\ i \notin taskErr)
           => \E f \in subFiles : f.name = chunks[i].Output
    /\ pc = "drain" => errChan # <<>>
    /\ pc = "exited" => exitCode = 1 /\ failed = "pool" /\ AllTasksDone

\* C4 witness: a run that exited 1 because one of two tasks failed, the
\* other task's fragment still in place
C4_Witness ==
  /\ pc = "exited"
  /\ exitCode = 1
  /\ Cardinality(taskErr) = 1
  /\ N = 2
  /\ subFiles # {}

StageOrder == <<"flag", "mkdir", "split", "enumerate", "pool", "merge", "cleanup">>

\* C5: stages begin only in the order flag check, directory creation,
\* splitter (once), enumeration, pool, merge, removal of the directories; a
\* stage begins only if every earlier one succeeded; a fatal failure of a
\* stage ends the run with exit code 1 with no later stage begun; exit code
\* 0 is reached only through every stage.
C5_StagesInOrder ==
  /\ Len(began) <= Len(StageOrder)
  /\ began = SubSeq(StageOrder, 1, Len(began))
  /\ failed # "none" =>
       /\ pc = "exited"
       /\ exitCode = 1
       /\ began[Len(began)] = failed
  /\ exitCode = 1 => failed # "none"
  /\ exitCode = 0 => began = StageOrder /\ failed = "none"
  /\ InBegan("merge") => taskErr = {}
  /\ (pc = "exited" /\ taskErr # {}) => failed = "pool"

\* C5 witness: merge failed on an I/O error and the run ended with code 1
\* with the clean-up never begun
C5_Witness ==
  /\ pc = "exited"
  /\ failed = "merge"
  /\ ioFault
  /\ exitCode = 1
  /\ ~InBegan("cleanup")

\* ------------------------------------------------------ claims on merge
\* the duration a written timecode stands for
TimeValue(t) == t.h * 3600000 + t.m * 60000 + t.s * 1000 + t.ms

Body == merged.body

\* the fragment files merge accepts, and their well-formed blocks
Accepted == {f \in subFiles : Ext(f.name) = ".srt" /\ OrdinalOk(f.name)}

Parsed ==
  UNION {{<<f, j>> : j \in {k \in DOMAIN f.data : BlockOk(f.data[k])}} : f \in Accepted}

NonNeg(d) == IF d < 0 THEN 0 ELSE d

\* what the claims expect of the block p = <<file, position>>
ShiftedStart(p) == ParseSrtTime(p[1].data[p[2]].start) + (Ordinal(p[1].name) - 1) * 30000

ShiftedEnd(p) == ParseSrtTime(p[1].data[p[2]].end) + (Ordinal(p[1].name) - 1) * 30000

WantKey(p) ==
  <<NonNeg(ShiftedStart(p)), NonNeg(ShiftedEnd(p)), p[1].data[p[2]].text>>

GotKey(i) == <<TimeValue(Body[i].Start), TimeValue(Body[i].End), Body[i].Content>>

\* the output is written and the fragment files are still as merge read them
JustWritten == merged.written /\ mpc = "delete"

\* C6: the entries of the merged output are in non-decreasing order of
\* Start, whatever the fragments and the order they were accumulated in.
C6_OutputSortedByStart ==
  merged.written =>
    \A i \in 1..(Len(Body) - 1) :
      TimeValue(Body[i].Start) <= TimeValue(Body[i + 1].Start)

\* C6 witness: output written from entries accumulated out of order
C6_Witness ==
  /\ merged.written
  /\ Len(Body) >= 3
  /\ \E i \in 1..(Len(accum) - 1) : accum[i].Start > accum[i + 1].Start

\* the place a stable sort by Start gives the p-th accumulated entry
StableRank(p) ==
  Cardinality({q \in 1..Len(accum) :
                 \/ accum[q].Start < accum[p].Start
                 \/ accum[q].Start = accum[p].Start /\ q <= p})

\* C7: the sort is stable: entries of equal Start are written in the
\* relative order in which they were accumulated.
C7_SortIsStable ==
  merged.written =>
    \A p \in 1..Len(accum) :
      /\ Body[StableRank(p)].Content = accum[p].Content
      /\ TimeValue(Body[StableRank(p)].Start) = accum[p].Start
      /\ TimeValue(Body[StableRank(p)].End) = accum[p].End

\* C8: the merged output holds exactly the entries parsed from the accepted
\* fragment files, each as often as it was parsed (an entry with End <
\* Start included), and its k-th entry carries index k.
C8_ExactlyParsedEntries ==
  JustWritten =>
    /\ Len(Body) = Cardinality(Parsed)
    /\ \A k \in 1..Len(Body) : Body[k].Index = k
    /\ \A p \in Parsed :
         Cardinality({i \in 1..Len(Body) : GotKey(i) = WantKey(p)})
           = Cardinality({q \in Parsed : WantKey(q) = WantKey(p)})

\* C8 witness: fragments of ordinals 1 and 2 with 1 and 2 entries, one of
\* them ending before it starts: 3 entries indexed 1, 2, 3
C8_Witness ==
  /\ JustWritten
  /\ {f.name : f \in Accepted} = {<<"part", "001", ".srt">>, <<"part", "002", ".srt">>}
  /\ Cardinality({p \in Parsed : Ordinal(p[1].name) = 1}) = 1
  /\ Cardinality({p \in Parsed : Ordinal(p[1].name) = 2}) = 2
  /\ Len(Body) = 3
  /\ \A k \in 1..3 : Body[k].Index = k
  /\ \E k \in 1..3 : TimeValue(Body[k].End) < TimeValue(Body[k].Start)

C10_EmptyMergeSucceeds ==
  (mpc \in {"failed", "returned"} /\ seen = 0 /\ ~ioFault) =>
    /\ mpc = "returned"
    /\ merged = [written |-> TRUE, body |-> <<>>]
    /\ exitCode # 1

\* a block of a fragment that is well formed: at least three lines, a number,
\* a line of two parsable timecodes around the arrow, then the text
WellFormed(b) ==
  /\ Len(b) >= 3
  /\ b[1].kind = "num"
  /\ b[2].kind = "tc"
  /\ b[2].codes = 2
  /\ SrtTimeOk(b[2].start)
  /\ SrtTimeOk(b[2].end)

EntryOf(b, offset) ==
  [Index |-> b[1].idx, Start |-> ParseSrtTime(b[2].start) + offset,
   End |-> ParseSrtTime(b[2].end) + offset, Content |-> SubSeq(b, 3, Len(b))]

RECURSIVE WantSubs(_, _)
WantSubs(blocks, offset) ==
  IF blocks = <<>> THEN <<>>
  ELSE (IF WellFormed(Head(blocks)) THEN <<EntryOf(Head(blocks), offset)>> ELSE <<>>)
         \o WantSubs(Tail(blocks), offset)

Parsing == ppc \in {"serialize", "done"}

Written(t) ==
  /\ t.fields = 2
  /\ t.msOk
  /\ t.h \in 0..99
  /\ t.m \in 0..59
  /\ t.s \in 0..59
  /\ t.ms \in 0..999

Hmsm(t) == [h |-> t.h, m |-> t.m, s |-> t.s, ms |-> t.ms]

\* the fragment is one block of a number, two written timecodes and text,
\* parsed with offset zero and serialized
OneBlockDone ==
  /\ ppc = "done"
  /\ srtIn.offset = 0
  /\ Len(srtIn.blocks) = 1
  /\ Len(srtIn.blocks[1]) >= 3
  /\ srtIn.blocks[1][1].kind = "num"
  /\ srtIn.blocks[1][2].kind = "tc"
  /\ srtIn.blocks[1][2].codes = 2
  /\ Written(srtIn.blocks[1][2].start)
  /\ Written(srtIn.blocks[1][2].end)

SameAsWritten ==
  /\ Len(rendered) = 1
  /\ rendered[1].Start = Hmsm(srtIn.blocks[1][2].start)
  /\ rendered[1].End = Hmsm(srtIn.blocks[1][2].end)
  /\ rendered[1].Content = SubSeq(srtIn.blocks[1], 3, Len(srtIn.blocks[1]))

\* C12 as stated: every block with timecodes HH:MM:SS,mmm comes back from
\* parsing with offset zero and serializing with the same Start and End
\* timecodes and the same text
C12_RoundTrip == OneBlockDone => SameAsWritten

\* C12 amended: a block whose timecodes have HH in 00..23 comes back from
\* parsing with offset zero and serializing with the same Start and End
\* timecodes and the same text; with HH of 24 or more the block is skipped
C12_RoundTripOfClockTimes ==
  OneBlockDone =>
    IF srtIn.blocks[1][2].start.h <= 23 /\ srtIn.blocks[1][2].end.h <= 23
      THEN SameAsWritten
      ELSE rendered = <<>>

C12_Witness ==
  /\ OneBlockDone
  /\ srtIn.blocks[1][2].start = Tc(23, 59, 59, 999)
  /\ srtIn.blocks[1][2].end = Tc(0, 0, 0, 7)
  /\ SameAsWritten

\* the blocks whose Start or End is below zero once the offset is added
Negative == {p \in Parsed : ShiftedStart(p) < 0 \/ ShiftedEnd(p) < 0}

\* C13: every entry of the merged output has Start >= 0 and End >= 0; an
\* entry whose Start or End is negative after the offset is added is
\* written with zero in its place, and no entry is dropped
C13_NegativeClampedAndKept ==
  /\ merged.written =>
       \A i \in 1..Len(Body) :
         TimeValue(Body[i].Start) >= 0 /\ TimeValue(Body[i].End) >= 0
  /\ JustWritten =>
       /\ Len(Body) = Cardinality(Parsed)
       /\ \A p \in Negative :
            \E i \in 1..Len(Body) :
              /\ Body[i].Content = p[1].data[p[2]].text
              /\ TimeValue(Body[i].Start) = IF ShiftedStart(p) < 0 THEN 0 ELSE ShiftedStart(p)
              /\ TimeValue(Body[i].End) = IF ShiftedEnd(p) < 0 THEN 0 ELSE ShiftedEnd(p)

C13_Witness ==
  /\ JustWritten
  /\ \E p \in Negative :
       /\ ShiftedStart(p) < 0
       /\ ShiftedEnd(p) < 0
       /\ \E i \in 1..Len(Body) :
            /\ Body[i].Content = p[1].data[p[2]].text
            /\ TimeValue(Body[i].Start) = 0
            /\ TimeValue(Body[i].End) = 0
  /\ Len(Body) >= 2

\* ---------------------------------------------- claims on the whole run
\* C14: in a run that exits with code 0 both directories were removed after
\* merge had returned: neither is left unless its own removal failed; no
\* removal is attempted before merge has returned, and a failed removal
\* leaves the exit code at 0
C14_DirectoriesRemovedOnSuccess ==
  /\ exitCode = 0 =>
       /\ mpc = "returned"
       /\ merged.written
       /\ audioDir => "audio_parts" \in rmFail
       /\ subDir => "subtitles" \in rmFail
  /\ mpc # "returned" => rmFail = {} /\ pc \notin {"rmAudio", "rmSub"}
  /\ pc = "merge" => audioDir
  /\ (pc = "exited" /\ rmFail # {}) => exitCode = 0

C14_Witness ==
  /\ exitCode = 0
  /\ N >= 2
  /\ ~audioDir
  /\ subDir
  /\ rmFail = {"subtitles"}

\* a name the splitter gives a segment: part, zero-padded number, .wav
IsSegmentName(name) ==
  /\ Len(name) = 3
  /\ name[1] = "part"
  /\ IsNumTok(name[2])
  /\ name[3] = ".wav"

\* the tasks of segments numbered 1 and up that succeeded
Succeeded ==
  {i \in 1..N : /\ IsSegmentName(chunks[i].Input)
                /\ AtoiTok(chunks[i].Input[2]) >= 1
                /\ tpc[i] = "done"
                /\ i \notin taskErr}

\* C15: the fragment of every succeeded segment part<k>.wav, k >= 1, is
\* found by merge at the path the walk of audio_parts assigned, its file
\* name gives ordinal k, and its entries are in the merged output shifted
\* by (k-1) x 30 seconds
C15_FragmentsOfSegmentsMerged ==
  (pc = "merge" /\ JustWritten) =>
    \A i \in Succeeded :
      LET out == chunks[i].Output
          k == AtoiTok(chunks[i].Input[2])
      IN /\ \E f \in subFiles : f.name = out
         /\ Ext(out) = ".srt"
         /\ OrdinalOk(out)
         /\ Ordinal(out) = k
         /\ \A j \in DOMAIN FileNamed(out).data :
              BlockOk(FileNamed(out).data[j]) =>
                \E e \in 1..Len(Body) :
                  /\ Body[e].Content = FileNamed(out).data[j].text
                  /\ TimeValue(Body[e].Start) =
                       ParseSrtTime(FileNamed(out).data[j].start) + (k - 1) * 30000

\* C16: when k >= 1 tasks failed, k "Error processing chunk" lines are
\* printed, one for each failure in the sink, and the run exits with code 1
C16_OneDiagnosticPerFailure ==
  (pc = "exited" /\ failed = "pool") =>
    /\ exitCode = 1
    /\ errLines = Cardinality(taskErr)

\* C17: only files of audio_parts named part, zero-padded number, .wav
\* become chunks and are handed to processChunk; any other file is skipped
\* and does not make the run fail
C17_OnlySegmentNamesBecomeChunks ==
  /\ \A i \in 1..N : IsSegmentName(chunks[i].Input)
  /\ failed = "enumerate" => faults > 0

\* the goroutines launched and not yet returned
Live == {i \in 1..N : tpc[i] \notin {"notStarted", "done"}}

\* C18 as stated: the launch loop never waits for a running task: whenever
\* the driver is about to launch the next task it can go on at once
C18_LaunchLoopNeverWaits == pc = "acquire" => semaphore < workers

\* C18 amended: the driver takes the token before each go statement, so the
\* tokens held are those of the goroutines launched and not yet returned
\* (plus the one just taken), at most W goroutines are launched and not
\* returned, tasks are launched in order, and with W of them not returned
\* the launch loop waits for one to return before it launches the next
C18_DriverTakesToken ==
  /\ semaphore = Cardinality(Live) + (IF pc = "go" THEN 1 ELSE 0)
  /\ semaphore <= workers
  /\ \A i \in 1..N : tpc[i] = "notStarted" <=> i >= next
  /\ (pc = "acquire" /\ Cardinality(Live) = workers) => ~ENABLED Acquire

C18_Witness ==
  /\ pc = "acquire"
  /\ workers = 2
  /\ Cardinality(Live) = 2
  /\ next = 3
  /\ N = 4
  /\ tpc[3] = "notStarted"
  /\ \E i \in Live : tpc[i] = "running"

\* processChunk's effects can be read off the files between the launch of
\* the pool and the deletion of the fragment files
PoolFiles == InBegan("pool") /\ mpc \notin {"returned"}

\* the transcriber of chunk i exited with status 0: its fragment is there
Transcribed(i) == \E f \in subFiles : f.name = chunks[i].Output

Returned(i) == tpc[i] \in {"release", "done"}

\* C19: a task is recorded as failed exactly when its directory creation or
\* its transcriber failed (no fragment was written); the input file is
\* removed only after the transcriber succeeded; a failed task leaves its
\* input file; a failed removal of the input leaves the task not failed
C19_FailedIffNotTranscribed ==
  PoolFiles =>
    \A i \in 1..N :
      /\ Returned(i) => (i \in taskErr <=> ~Transcribed(i))
      /\ (tpc[i] = "done" /\ pc # "exited") =>
           ((\E k \in 1..Len(errChan) : errChan[k] = i) <=> ~Transcribed(i))
      /\ chunks[i].Input \notin audioFiles => Transcribed(i) /\ i \notin taskErr
      /\ i \in taskErr => chunks[i].Input \in audioFiles
      /\ tpc[i] \in {"notStarted", "start", "exec", "running"} =>
           chunks[i].Input \in audioFiles

C19_Witness ==
  /\ pc = "drain"
  /\ N = 3
  /\ AllTasksDone
  /\ Transcribed(1) /\ chunks[1].Input \notin audioFiles
  /\ Transcribed(2) /\ chunks[2].Input \in audioFiles /\ errChan = <<3>>
  /\ ~Transcribed(3) /\ chunks[3].Input \in audioFiles

\* C20: with W >= 1, fair scheduling and transcribers that come to an end,
\* the pool does not deadlock: a task about to send its error finds room in
\* the channel, a task about to give its token back finds one to take, once
\* the barrier is passed every task has returned and every token is back,
\* and from the start of the pool the driver always comes to pass the barrier
C20_PoolTerminates ==
  /\ [](\A i \in 1..N : tpc[i] = "sendErr" => Len(errChan) < N)
  /\ [](\A i \in 1..N : tpc[i] = "release" => semaphore > 0)
  /\ [](PastBarrier => AllTasksDone /\ semaphore = 0 /\ wg = 0)
  /\ (InBegan("pool") ~> PastBarrier)

\* C20 witness: one worker, two segments, both tasks failed: the barrier is
\* passed with both failures in the channel and the token back
C20_Witness ==
  /\ pc = "drain"
  /\ workers = 1
  /\ N = 2
  /\ taskErr = {1, 2}
  /\ Len(errChan) = 2
  /\ semaphore = 0

====
